---- MODULE Spec2Model ----
(***************************************************************************)
(* A model of CacheLRU (src/source/cachelru.js): a key index (_keys) over  *)
(* entries that are linked oldest -> newest through their newer / older    *)
(* fields, with scope.head the oldest and scope.tail the newest entry.     *)
(*                                                                         *)
(* Entries are heap objects; the model gives each a node id in 1..MaxNodes *)
(* and keeps the four fields of every node in heap.  The id 0 stands for   *)
(* JavaScript's undefined wherever a reference is expected.  An entry that *)
(* no reference of the cache reaches any more is garbage: its node id is   *)
(* returned to the free pool (Collect), as the JavaScript collector would. *)
(***************************************************************************)
EXTENDS Integers, Sequences, FiniteSets, TLC

\* ---------------------------------------------------------------- bounds
MaxKeys  == 3    \* keys are 1..MaxKeys
MaxVal   == 2    \* values are 1..MaxVal
MaxNodes == 4    \* entries alive at the same time
MaxLimit == 3    \* largest capacity passed to the constructor or to limit
MaxCount == 4    \* put is not called once _currentSize has reached this
MaxDebt  == 1    \* remove(Inherited) is not called once _currentSize is -MaxDebt
MaxLive  == 2    \* entries alive where get and remove are called with any name

Keys   == 1..MaxKeys
Values == 1..MaxVal
Nodes  == 1..MaxNodes
Undef  == 0      \* undefined, as a reference, a key or a value

\* _keys is an object literal, so it inherits the properties of
\* Object.prototype: under such a name (constructor, toString, ...)
\* _keys[name] is a function object wherever no entry is stored under it.
\* The model has one such name, Inherited, and keeps the fields the
\* handlers read and write on that function object in heap[Fn].
Inherited == MaxKeys + 1
Names     == 1..(MaxKeys + 1)
Fn        == -1
Objects   == Nodes \cup {Fn}
Inherit(k) == IF k = Inherited THEN Fn ELSE Undef

\* --------------------------------------------------------------- program
minCacheSize == 2

VARIABLES
    cacheSize,     \* _cacheSize
    currentSize,   \* _currentSize
    keys,          \* _keys: name -> what _keys[name] is (Undef: undefined)
    head,          \* scope.head
    tail,          \* scope.tail
    heap,          \* object id -> [key, value, newer, older]
    underscore,    \* whether a global `_` with times() is defined (lodash)
    op,            \* the last call: [name, key, value, raw]
    result,        \* what the last call returned: [kind, key, value, list]
    ref,           \* history: the recency list <<key, value>>, oldest first
    refRet,        \* history: what the reference list returned for op
    touched,       \* history: keys read or overwritten since they were inserted
    was,           \* history: [ref, touched] before the last call
    pre,           \* history: the cache object the last call was made on
    run            \* history: keys inserted in a row since the cache was empty

prog == <<cacheSize, currentSize, keys, head, tail, heap, underscore>>
hist == <<ref, refRet, touched, was, pre, run>>
vars == <<cacheSize, currentSize, keys, head, tail, heap, underscore,
          op, result,
          ref, refRet, touched, was, pre, run>>

NoEntry == [key |-> Undef, value |-> Undef, newer |-> Undef, older |-> Undef]

\* The cache object as one value: what the handlers read and write.
State == [cacheSize |-> cacheSize, currentSize |-> currentSize, keys |-> keys,
          head |-> head, tail |-> tail, heap |-> heap]

\* _keys = {}
EmptyIndex == [k \in Names |-> Inherit(k)]
\* delete _keys[k]: the own property goes, an inherited one shows again;
\* k is undefined where the entry is the inherited function object
Delete(st, k) == IF k \in Names THEN [st EXCEPT !.keys[k] = Inherit(k)] ELSE st

\* ------------------------------------------------------- returned values
\* (records list their fields in one order throughout: key, value, newer,
\* older, kind, list, n, name, raw)
Ret(kind, k, v, l) == [key |-> k, value |-> v, kind |-> kind, list |-> l]
RetUndefined    == Ret("undefined", Undef, Undef, <<>>)
RetNull         == Ret("null", Undef, Undef, <<>>)
RetError        == Ret("ReferenceError", Undef, Undef, <<>>)
RetValue(v)     == Ret("value", Undef, v, <<>>)
RetEntry(st, n) == Ret("entry", st.heap[n].key, st.heap[n].value, <<>>)
RetKeys(s)      == Ret("keys", Undef, Undef, s)
RetPairs(s)     == Ret("pairs", Undef, Undef, s)
\* JavaScript truthiness of a returned value (values 1..MaxVal are truthy)
Truthy(r)       == r.kind \in {"value", "entry"}

NoRaw == [kind |-> "none", n |-> 0]
Call(name, k, v)    == [key |-> k, value |-> v, name |-> name, raw |-> NoRaw]
CallRaw(name, raw)  == [key |-> Undef, value |-> Undef, name |-> name, raw |-> raw]

\* ------------------------------------------------------ capacity parsing
\* What a caller may pass as a capacity: an integer n, the fraction n + 1/2
\* ("half", n >= 0), a non-numeric value ("text", also undefined) or Infinity.
Raw(kind, n) == [kind |-> kind, n |-> n]
RawInputs == {Raw("text", 0), Raw("inf", 0)}
             \cup {Raw("int", n) : n \in -1..MaxLimit}
             \cup {Raw("half", n) : n \in 1..2}
\* the integer capacities among them, one of them below the floor
IntInputs == {Raw("int", n) : n \in 1..MaxLimit}

Num(n) == [n |-> n, nan |-> FALSE]
NaN    == [n |-> 0, nan |-> TRUE]

\* parseInt(value): truncates a fraction, NaN for text and for Infinity
ParseInt(raw) ==
    IF raw.kind \in {"int", "half"} THEN Num(raw.n) ELSE NaN

\* _toNumber(value, onFailedConversion, minValue, Number.MAX_VALUE):
\* parseFloat, then toFixed(0), which rounds n + 1/2 up to n + 1
ToNumber(raw, onFailedConversion, minValue) ==
    IF raw.kind \in {"text", "inf"} THEN onFailedConversion
    ELSE LET value == IF raw.kind = "half" THEN raw.n + 1 ELSE raw.n
         IN  IF value < minValue THEN minValue ELSE value

\* -------------------------------------------------------------- handlers
\* Every handler maps the cache object to [st, ret, node]: the object after
\* the call, the returned value, and (get) the entry handed to the caller.
Done(st, ret)          == [st |-> st, ret |-> ret, node |-> Undef]
DoneAt(st, ret, node)  == [st |-> st, ret |-> ret, node |-> node]

\* shift that deletes the binding of the key only where it is the binding
\* of the entry removed
ShiftF_guardsDelete(st) ==
    LET entry == st.head IN
    IF entry # Undef
    THEN LET nw == st.heap[entry].newer
             s1 == IF nw # Undef
                   THEN [st EXCEPT !.head = nw, !.heap[nw].older = Undef]
                   ELSE [st EXCEPT !.head = Undef]
             s2 == [s1 EXCEPT !.heap[entry].newer = Undef,
                              !.heap[entry].older = Undef]
             s3 == IF s2.keys[s2.heap[entry].key] = entry
                   THEN Delete(s2, s2.heap[entry].key) ELSE s2
         IN  Done(s3, RetEntry(st, entry))
    ELSE Done(st, RetUndefined)

\* scope.shift
ShiftF(st) ==
    LET entry == st.head IN
    IF entry # Undef
    THEN LET nw == st.heap[entry].newer
             s1 == IF nw # Undef
                   THEN [st EXCEPT !.head = nw, !.heap[nw].older = Undef]
                   ELSE [st EXCEPT !.head = Undef]
             s2 == [s1 EXCEPT !.heap[entry].newer = Undef,
                              !.heap[entry].older = Undef]
             s3 == Delete(s2, s2.heap[entry].key)
         IN  Done(s3, RetEntry(st, entry))
    ELSE Done(st, RetUndefined)

\* put with the bug of evicting as soon as the insertion fills the cache
PutF_early(st, n, key, value) ==
    LET s0 == [st EXCEPT !.heap[n] = [key |-> key, value |-> value,
                                      newer |-> Undef, older |-> Undef],
                         !.keys[key] = n]
        s1 == IF st.tail # Undef
              THEN [s0 EXCEPT !.heap[st.tail].newer = n,
                              !.heap[n].older = st.tail]
              ELSE [s0 EXCEPT !.head = n]
        s2 == [s1 EXCEPT !.tail = n]
    IN  IF s2.currentSize + 1 = s2.cacheSize
        THEN ShiftF(s2)
        ELSE Done([s2 EXCEPT !.currentSize = @ + 1], RetNull)

\* put with the bug of evicting only once the cache holds more than the limit
PutF_late(st, n, key, value) ==
    LET s0 == [st EXCEPT !.heap[n] = [key |-> key, value |-> value,
                                      newer |-> Undef, older |-> Undef],
                         !.keys[key] = n]
        s1 == IF st.tail # Undef
              THEN [s0 EXCEPT !.heap[st.tail].newer = n,
                              !.heap[n].older = st.tail]
              ELSE [s0 EXCEPT !.head = n]
        s2 == [s1 EXCEPT !.tail = n]
    IN  IF s2.currentSize > s2.cacheSize
        THEN ShiftF(s2)
        ELSE Done([s2 EXCEPT !.currentSize = @ + 1], RetNull)

\* scope.put, the new entry {key, value} being node n
PutF(st, n, key, value) ==
    LET s0 == [st EXCEPT !.heap[n] = [key |-> key, value |-> value,
                                      newer |-> Undef, older |-> Undef],
                         !.keys[key] = n]
        s1 == IF st.tail # Undef
              THEN [s0 EXCEPT !.heap[st.tail].newer = n,
                              !.heap[n].older = st.tail]
              ELSE [s0 EXCEPT !.head = n]
        s2 == [s1 EXCEPT !.tail = n]
    IN  IF s2.currentSize = s2.cacheSize
        THEN ShiftF(s2)
        ELSE Done([s2 EXCEPT !.currentSize = @ + 1], RetNull)

\* get with the bug of leaving scope.head on the entry it moves to the tail
GetF_keepsHead(st, key, returnEntry) ==
    LET entry == st.keys[key]
        Out(s) == IF returnEntry THEN RetEntry(s, entry)
                  ELSE RetValue(s.heap[entry].value)
    IN  IF entry = Undef THEN Done(st, RetUndefined)
        ELSE IF entry = st.tail THEN DoneAt(st, Out(st), entry)
        ELSE LET nw == st.heap[entry].newer
                 s1 == IF nw # Undef
                       THEN [st EXCEPT !.heap[nw].older = st.heap[entry].older]
                       ELSE st
                 od == s1.heap[entry].older
                 s2 == IF od # Undef
                       THEN [s1 EXCEPT !.heap[od].newer = s1.heap[entry].newer]
                       ELSE s1
                 s3 == [s2 EXCEPT !.heap[entry].newer = Undef,
                                  !.heap[entry].older = s2.tail]
                 s4 == IF s3.tail # Undef
                       THEN [s3 EXCEPT !.heap[s3.tail].newer = entry]
                       ELSE s3
                 s5 == [s4 EXCEPT !.tail = entry]
             IN  DoneAt(s5, Out(s5), entry)

\* get with the bug of relinking an entry that is the tail already
GetF_relinksTail(st, key, returnEntry) ==
    LET entry == st.keys[key]
        Out(s) == IF returnEntry THEN RetEntry(s, entry)
                  ELSE RetValue(s.heap[entry].value)
    IN  IF entry = Undef THEN Done(st, RetUndefined)
        ELSE LET nw == st.heap[entry].newer
                 s1 == IF nw # Undef
                       THEN LET a == IF entry = st.head
                                     THEN [st EXCEPT !.head = nw] ELSE st
                            IN  [a EXCEPT !.heap[nw].older = st.heap[entry].older]
                       ELSE st
                 od == s1.heap[entry].older
                 s2 == IF od # Undef
                       THEN [s1 EXCEPT !.heap[od].newer = s1.heap[entry].newer]
                       ELSE s1
                 s3 == [s2 EXCEPT !.heap[entry].newer = Undef,
                                  !.heap[entry].older = s2.tail]
                 s4 == IF s3.tail # Undef
                       THEN [s3 EXCEPT !.heap[s3.tail].newer = entry]
                       ELSE s3
                 s5 == [s4 EXCEPT !.tail = entry]
             IN  DoneAt(s5, Out(s5), entry)

\* get with the bug of leaving the newer link of the entry before
GetF_keepsOlderLink(st, key, returnEntry) ==
    LET entry == st.keys[key]
        Out(s) == IF returnEntry THEN RetEntry(s, entry)
                  ELSE RetValue(s.heap[entry].value)
    IN  IF entry = Undef THEN Done(st, RetUndefined)
        ELSE IF entry = st.tail THEN DoneAt(st, Out(st), entry)
        ELSE LET nw == st.heap[entry].newer
                 s1 == IF nw # Undef
                       THEN LET a == IF entry = st.head
                                     THEN [st EXCEPT !.head = nw] ELSE st
                            IN  [a EXCEPT !.heap[nw].older = st.heap[entry].older]
                       ELSE st
                 s3 == [s1 EXCEPT !.heap[entry].newer = Undef,
                                  !.heap[entry].older = s1.tail]
                 s4 == IF s3.tail # Undef
                       THEN [s3 EXCEPT !.heap[s3.tail].newer = entry]
                       ELSE s3
                 s5 == [s4 EXCEPT !.tail = entry]
             IN  DoneAt(s5, Out(s5), entry)

\* scope.get
GetF(st, key, returnEntry) ==
    LET entry == st.keys[key]
        Out(s) == IF returnEntry THEN RetEntry(s, entry)
                  ELSE RetValue(s.heap[entry].value)
    IN  IF entry = Undef THEN Done(st, RetUndefined)
        ELSE IF entry = st.tail THEN DoneAt(st, Out(st), entry)
        ELSE LET nw == st.heap[entry].newer
                 s1 == IF nw # Undef
                       THEN LET a == IF entry = st.head
                                     THEN [st EXCEPT !.head = nw] ELSE st
                            IN  [a EXCEPT !.heap[nw].older = st.heap[entry].older]
                       ELSE st
                 od == s1.heap[entry].older
                 s2 == IF od # Undef
                       THEN [s1 EXCEPT !.heap[od].newer = s1.heap[entry].newer]
                       ELSE s1
                 s3 == [s2 EXCEPT !.heap[entry].newer = Undef,
                                  !.heap[entry].older = s2.tail]
                 s4 == IF s3.tail # Undef
                       THEN [s3 EXCEPT !.heap[s3.tail].newer = entry]
                       ELSE s3
                 s5 == [s4 EXCEPT !.tail = entry]
             IN  DoneAt(s5, Out(s5), entry)

\* remove with the bug of leaving scope.head on a removed oldest entry
RemoveF_keepsHead(st, key) ==
    LET entry == st.keys[key] IN
    IF entry = Undef THEN Done(st, RetUndefined)
    ELSE LET nw == st.heap[entry].newer
             od == st.heap[entry].older
             s0 == Delete(st, st.heap[entry].key)
             s1 == IF nw # Undef /\ od # Undef
                   THEN [s0 EXCEPT !.heap[od].newer = nw, !.heap[nw].older = od]
                   ELSE IF nw # Undef
                   THEN [s0 EXCEPT !.heap[nw].older = Undef]
                   ELSE IF od # Undef
                   THEN [s0 EXCEPT !.heap[od].newer = Undef, !.tail = od]
                   ELSE [s0 EXCEPT !.head = Undef, !.tail = Undef]
         IN  Done([s1 EXCEPT !.currentSize = @ - 1],
                  RetValue(st.heap[entry].value))

\* scope.remove
RemoveF(st, key) ==
    LET entry == st.keys[key] IN
    IF entry = Undef THEN Done(st, RetUndefined)
    ELSE LET nw == st.heap[entry].newer
             od == st.heap[entry].older
             s0 == Delete(st, st.heap[entry].key)
             s1 == IF nw # Undef /\ od # Undef
                   THEN [s0 EXCEPT !.heap[od].newer = nw, !.heap[nw].older = od]
                   ELSE IF nw # Undef
                   THEN [s0 EXCEPT !.heap[nw].older = Undef, !.head = nw]
                   ELSE IF od # Undef
                   THEN [s0 EXCEPT !.heap[od].newer = Undef, !.tail = od]
                   ELSE [s0 EXCEPT !.head = Undef, !.tail = Undef]
         IN  Done([s1 EXCEPT !.currentSize = @ - 1],
                  RetValue(st.heap[entry].value))

\* scope.set, n being the node a put would create
SetF(st, n, key, value) ==
    LET g == GetF(st, key, TRUE) IN
    IF Truthy(g.ret)
    THEN Done([g.st EXCEPT !.heap[g.node].value = value], RetValue(g.ret.value))
    ELSE LET p == PutF(st, n, key, value)
         IN  Done(p.st, IF Truthy(p.ret) THEN RetValue(p.ret.value) ELSE p.ret)

\* destroy with the bug of leaving _currentSize as it is
DestroyF_keepsCount(st) ==
    Done([st EXCEPT !.head = Undef, !.tail = Undef,
                    !.keys = EmptyIndex], RetUndefined)

\* scope.destroy
DestroyF(st) ==
    Done([st EXCEPT !.head = Undef, !.tail = Undef, !.currentSize = 0,
                    !.keys = EmptyIndex], RetUndefined)

\* _.times(n, scope.shift.bind(scope)): shift is called max(n, 0) times
RECURSIVE Times(_, _)
Times(n, st) == IF n < 1 THEN st ELSE Times(n - 1, ShiftF(st).st)

\* the setter of scope.limit; `_` is a free identifier of the file, so the
\* call of _.times throws a ReferenceError where no global `_` is defined
LimitSetF(st, raw, hasUnderscore) ==
    LET p     == ParseInt(raw)
        value == IF p.nan \/ p.n < minCacheSize THEN minCacheSize ELSE p.n
        s1    == [st EXCEPT !.cacheSize = value]
    IN  IF s1.currentSize - value # 0
        THEN IF hasUnderscore
             THEN Done(Times(s1.currentSize - value, s1), RetUndefined)
             ELSE Done(s1, RetError)
        ELSE Done(s1, RetUndefined)

\* scope.isSet: the entry bound to key, or undefined
IsSetF(st, key) ==
    IF st.keys[key] = Undef THEN Done(st, RetUndefined)
    ELSE Done(st, RetEntry(st, st.keys[key]))

\* the getter of scope.limit
LimitGetF(st) == Done(st, RetValue(st.cacheSize))

\* ------------------------------------------------------------ traversals
\* The entries iterate() visits from node n along field f ("newer" from
\* head, "older" from tail), as <<key, value>> pairs; a walk is cut after
\* MaxNodes + 2 entries (a longer one would be a cycle).
RECURSIVE WalkFrom(_, _, _, _)
WalkFrom(st, n, f, fuel) ==
    IF n = Undef \/ fuel = 0 THEN <<>>
    ELSE <<n>> \o WalkFrom(st, st.heap[n][f], f, fuel - 1)

Walk(st, descending) ==
    IF descending THEN WalkFrom(st, st.tail, "older", MaxNodes + 2)
    ELSE WalkFrom(st, st.head, "newer", MaxNodes + 2)

Pairs(st, w) == [i \in 1..Len(w) |-> <<st.heap[w[i]].key, st.heap[w[i]].value>>]

\* scope.iterate with an iteratee that records what it is called with
IterateF(st, descending) == Done(st, RetPairs(Pairs(st, Walk(st, descending))))

\* scope.keys: Object.keys(_keys).sort()
RECURSIVE Sorted(_)
Sorted(S) == IF S = {} THEN <<>>
             ELSE LET m == CHOOSE x \in S : \A y \in S : x <= y
                  IN  <<m>> \o Sorted(S \ {m})

\* the own properties of _keys
Held(st) == {k \in Names : st.keys[k] \in Nodes}

KeysF(st) == Done(st, RetKeys(Sorted(Held(st))))

\* ---------------------------------------------------- garbage collection
\* The entries some reference of the cache still reaches, in the order a
\* breadth-first search finds them from head, tail and the index.
RECURSIVE Visit(_, _, _)
Visit(st, done, todo) ==
    IF todo = <<>> THEN done
    ELSE LET n == Head(todo) IN
         IF n = Undef \/ \E i \in 1..Len(done) : done[i] = n
         THEN Visit(st, done, Tail(todo))
         ELSE Visit(st, Append(done, n),
                    Tail(todo) \o <<st.heap[n].newer, st.heap[n].older>>)

Reach(st) ==
    Visit(st, <<>>, <<st.head, st.tail>> \o [k \in Names |-> st.keys[k]] \o <<Fn>>)

\* Entries nothing reaches are garbage.  Node ids are addresses, which no
\* handler compares but for identity, so the entries kept are renumbered
\* 1, 2, ... in the order of Reach: two heaps of the same shape are one state.
Renumber(st, live) ==
    LET id(n)  == IF n \in {Undef, Fn} THEN n
                  ELSE CHOOSE i \in 1..Len(live) : live[i] = n
        move(e) == [key |-> e.key, value |-> e.value,
                    newer |-> id(e.newer), older |-> id(e.older)]
    IN  [st EXCEPT !.head = id(st.head),
                   !.tail = id(st.tail),
                   !.keys = [k \in Names |-> id(st.keys[k])],
                   !.heap = [n \in Objects |->
                                IF n = Fn THEN move(st.heap[Fn])
                                ELSE IF n <= Len(live)
                                THEN move(st.heap[live[n]])
                                ELSE NoEntry]]

Collect(st) == Renumber(st, SelectSeq(Reach(st), LAMBDA n : n # Fn))

Free(st)  == {n \in Nodes : st.heap[n] = NoEntry}
\* the node a new entry gets
Alloc(st) == IF Free(st) = {} THEN Undef
             ELSE CHOOSE n \in Free(st) : \A m \in Free(st) : n <= m

\* ------------------------------------------------------------- histories
\* The histories record what has been done to the cache; no handler reads
\* them.  A list of <<key, value>> pairs, oldest first:
HasKey(l, k)  == \E i \in 1..Len(l) : l[i][1] = k
ValueOf(l, k) == l[CHOOSE i \in 1..Len(l) : l[i][1] = k][2]
Without(l, k) == SelectSeq(l, LAMBDA p : p[1] # k)
KeysOf(l)     == [i \in 1..Len(l) |-> l[i][1]]
KeySet(l)     == {l[i][1] : i \in 1..Len(l)}
None          == Undef

\* The reference strict-LRU list of capacity C: [l, ret] after each call.
RefGet(l, k) ==
    IF HasKey(l, k)
    THEN [l |-> Append(Without(l, k), <<k, ValueOf(l, k)>>), ret |-> ValueOf(l, k)]
    ELSE [l |-> l, ret |-> None]
RefSet(l, C, k, v) ==
    IF HasKey(l, k)
    THEN [l |-> Append(Without(l, k), <<k, v>>), ret |-> ValueOf(l, k)]
    ELSE IF Len(l) = C
    THEN [l |-> Append(Tail(l), <<k, v>>), ret |-> Head(l)[2]]
    ELSE [l |-> Append(l, <<k, v>>), ret |-> None]
RefRemove(l, k) ==
    IF HasKey(l, k) THEN [l |-> Without(l, k), ret |-> ValueOf(l, k)]
    ELSE [l |-> l, ret |-> None]
RefIsSet(l, k) == [l |-> l, ret |-> IF HasKey(l, k) THEN ValueOf(l, k) ELSE None]
RefDestroy(l)  == [l |-> <<>>, ret |-> None]

RefStep(l, C, call) ==
    CASE call.name = "get"     -> RefGet(l, call.key)
      [] call.name = "set"     -> RefSet(l, C, call.key, call.value)
      [] call.name = "remove"  -> RefRemove(l, call.key)
      [] call.name = "isSet"   -> RefIsSet(l, call.key)
      [] call.name = "destroy" -> RefDestroy(l)

\* What a returned value is to the caller of the reference: a value or None.
Plain(r) == IF r.kind \in {"value", "entry"} THEN r.value ELSE None

\* The recency list as the calls made it: a get of a held key, a set and a
\* put make their key the newest, and a key the index no longer holds after
\* the call has left the list.
Observed(l, call, st, after) ==
    LET k == call.key
        v == call.value
        l1 == CASE call.name = "get" /\ st.keys[k] # Undef
                     -> Append(Without(l, k), <<k, ValueOf(l, k)>>)
                [] call.name \in {"set", "put"}
                     -> Append(Without(l, k), <<k, v>>)
                [] OTHER -> l
    IN  SelectSeq(l1, LAMBDA p : after.keys[p[1]] # Undef)

\* Keys that a get or a set found held, and that have been held ever since.
TouchedNext(t, call, st, after) ==
    LET t1 == IF call.name \in {"get", "set"} /\ st.keys[call.key] # Undef
              THEN t \cup {call.key} ELSE t \ {call.key}
    IN  {k \in t1 : after.keys[k] # Undef}

\* The keys inserted in a row, by put or set, since the cache was empty
\* (no key held and _currentSize = 0); <<>> once any other call is made.
IsEmpty(st) == Held(st) = {} /\ st.currentSize = 0
RunNext(r, call, st) ==
    LET insert == call.name \in {"put", "set"} /\ st.keys[call.key] = Undef
    IN  IF insert /\ IsEmpty(st) THEN <<call.key>>
        ELSE IF insert /\ r # <<>> /\ call.key \notin {r[i] : i \in 1..Len(r)}
        THEN Append(r, call.key)
        ELSE <<>>

\* --------------------------------------------------------------- actions
\* One call of a public method: the handler's object and return value become
\* the state, and the entries nothing refers to any more are collected.
Act(call, r) ==
    \E st \in {Collect(r.st)} :
    /\ cacheSize'   = st.cacheSize
    /\ currentSize' = st.currentSize
    /\ keys'        = st.keys
    /\ head'        = st.head
    /\ tail'        = st.tail
    /\ heap'        = st.heap
    /\ op'          = call
    /\ result'      = r.ret
    /\ UNCHANGED underscore

\* The histories a call leaves, by what the specification keeps track of:
\* "recency" the recency list and the touched keys, "run" the insertions in a
\* row, "reference" the reference list and its return value (and the cache
\* object before the call), "last" the cache object before the call.
Note(h, call, r) ==
    IF h = "recency"
    THEN /\ ref'     = Observed(ref, call, State, r.st)
         /\ touched' = TouchedNext(touched, call, State, r.st)
         /\ was'     = [ref |-> ref, touched |-> touched]
         /\ UNCHANGED <<refRet, pre, run>>
    ELSE IF h = "run"
    THEN /\ run' = RunNext(run, call, State)
         /\ UNCHANGED <<ref, refRet, touched, was, pre>>
    ELSE IF h = "reference"
    THEN /\ \E f \in {RefStep(ref, cacheSize, call)} :
               ref' = f.l /\ refRet' = f.ret
         /\ pre' = State
         /\ UNCHANGED <<touched, was, run>>
    ELSE /\ pre' = State
         /\ UNCHANGED <<ref, refRet, touched, was, run>>

CanPut == Free(State) # {} /\ currentSize < MaxCount

Handle(call) ==
    CASE call.name = "put"     -> PutF(State, Alloc(State), call.key, call.value)
      [] call.name = "set"     -> SetF(State, Alloc(State), call.key, call.value)
      [] call.name = "get"     -> GetF(State, call.key, FALSE)
      [] call.name = "remove"  -> RemoveF(State, call.key)
      [] call.name = "isSet"   -> IsSetF(State, call.key)
      [] call.name = "shift"   -> ShiftF(State)
      [] call.name = "destroy" -> DestroyF(State)
      [] call.name = "keys"    -> KeysF(State)
      [] call.name = "iterate" -> IterateF(State, call.value = 1)
      [] call.name = "limit"   -> LimitSetF(State, call.raw, underscore)
      [] call.name = "limit?"  -> LimitGetF(State)

Do(call, h) == \E r \in {Handle(call)} : Act(call, r) /\ Note(h, call, r)

\* put is called with keys that are not held (its contract)
Put(k, v, h)     == keys[k] = Undef /\ CanPut /\ Do(Call("put", k, v), h)
Set(k, v, h)     == (keys[k] # Undef \/ CanPut) /\ Do(Call("set", k, v), h)
Get(k, h)        == Do(Call("get", k, Undef), h)
Remove(k, h)     == Do(Call("remove", k, Undef), h)
IsSet(k, h)      == Do(Call("isSet", k, Undef), h)
Shift(h)         == Do(Call("shift", Undef, Undef), h)
Destroy(h)       == Do(Call("destroy", Undef, Undef), h)
GetKeys(h)       == Do(Call("keys", Undef, Undef), h)
Iterate(d, h)    == Do(Call("iterate", Undef, IF d THEN 1 ELSE 0), h)
SetLimit(raw, h) == Do(CallRaw("limit", raw), h)
GetLimit(h)      == Do(Call("limit?", Undef, Undef), h)

\* the state after new CacheLRU(size)
Construct(raw) ==
    /\ cacheSize   = ToNumber(raw, minCacheSize, minCacheSize)
    /\ currentSize = 0
    /\ keys        = EmptyIndex
    /\ head        = Undef
    /\ tail        = Undef
    /\ heap        = [n \in Objects |-> NoEntry]
    /\ op          = CallRaw("new", raw)
    /\ result      = RetUndefined

Init ==
    /\ \E raw \in IntInputs : Construct(raw)
    /\ pre = State
    /\ underscore \in BOOLEAN
    /\ ref = <<>> /\ refRet = None /\ touched = {} /\ run = <<>>
    /\ was = [ref |-> <<>>, touched |-> {}]

\* the same in an environment that defines no global `_` (only the setter
\* of limit refers to it)
InitPlain == Init /\ underscore = FALSE

\* The calls that change the cache, the values stored drawn from V
Mutate(h, V) ==
    \/ \E k \in Keys, v \in V : Put(k, v, h)
    \/ \E k \in Keys, v \in V : Set(k, v, h)
    \/ \E k \in Keys : Get(k, h)
    \/ \E k \in Keys : Remove(k, h)
    \/ Shift(h)
    \/ Destroy(h)
    \/ \E raw \in IntInputs : SetLimit(raw, h)

Next == Mutate("last", Values)

Spec == Init /\ [][Next]_vars

\* No handler reads a value it stores, so where only the order of the keys
\* is kept track of, every call stores the same value.
OneValue == {MaxVal}

\* The same calls, with the recency of the keys kept track of
NextRecency == Mutate("recency", OneValue)
SpecRecency == Init /\ [][NextRecency]_vars

\* The same calls, with the insertions in a row kept track of
NextRun == Mutate("run", OneValue)
SpecRun == Init /\ [][NextRun]_vars

\* The calls of a strict-LRU map, followed by the reference list
NextLRU ==
    \/ \E k \in Keys, v \in Values : Set(k, v, "reference")
    \/ \E k \in Keys : Get(k, "reference")
    \/ \E k \in Keys : Remove(k, "reference")
    \/ \E k \in Keys : IsSet(k, "reference")
    \/ Destroy("reference")
SpecLRU == Init /\ [][NextLRU]_vars

\* The calls that change the cache and the calls that only read it
Observe(h) ==
    \/ \E k \in Keys : IsSet(k, h)
    \/ GetKeys(h)
    \/ GetLimit(h)
    \/ \E d \in BOOLEAN : Iterate(d, h)
NextObserve == Mutate("last", OneValue) \/ Observe("last")
SpecObserve == Init /\ [][NextObserve]_vars

\* The capacities the documentation of the constructor and of limit speaks
\* of: non-numeric, non-finite, negative, below the floor, and integers
ListedInputs == {raw \in RawInputs : raw.kind # "half"}

\* Any such capacity passed to the constructor and assigned to limit, among
\* puts and removes
InitCapacity ==
    /\ \E raw \in ListedInputs : Construct(raw)
    /\ pre = State
    /\ underscore \in BOOLEAN
    /\ ref = <<>> /\ refRet = None /\ touched = {} /\ run = <<>>
    /\ was = [ref |-> <<>>, touched |-> {}]
NextCapacity ==
    \/ \E k \in Keys, v \in OneValue : Put(k, v, "last")
    \/ \E k \in Keys : Remove(k, "last")
    \/ \E raw \in ListedInputs : SetLimit(raw, "last")
SpecCapacity == InitCapacity /\ [][NextCapacity]_vars

\* put called with any key, held or not, among gets, removes and shifts
PutAny(k, v, h) == CanPut /\ Do(Call("put", k, v), h)
NextDuplicate ==
    \/ \E k \in Keys, v \in Values : PutAny(k, v, "last")
    \/ \E k \in Keys : Get(k, "last")
    \/ \E k \in Keys : Remove(k, "last")
    \/ Shift("last")
SpecDuplicate == InitPlain /\ [][NextDuplicate]_vars

\* get and remove called with any name, Inherited included, among the puts
\* that leave at most MaxLive entries reachable
NextNames ==
    \/ \E k \in Keys, v \in OneValue :
          Cardinality(Nodes \ Free(State)) < MaxLive /\ Put(k, v, "last")
    \/ \E k \in Names : Get(k, "last")
    \/ \E k \in Keys : Remove(k, "last")
    \/ currentSize > -MaxDebt /\ Remove(Inherited, "last")
SpecNames == InitPlain /\ [][NextNames]_vars

\* ================================================================ claims
\* What iterate() yields oldest first, and newest first
Oldest(st) == Pairs(st, Walk(st, FALSE))
Newest(st) == Pairs(st, Walk(st, TRUE))
Count(st)  == Cardinality(Held(st))
\* the last call returned (it did not throw)
Returned   == result.kind # "ReferenceError"
\* the value bound to a held key
Bound(st, k) == st.heap[st.keys[k]].value

C2_CountWithinLimit ==
    Returned =>
        /\ currentSize <= cacheSize
        /\ Count(State) <= cacheSize

\* C3: from an empty cache of capacity C, inserting C + 1 distinct keys (by
\* put or set) with no other call in between evicts exactly one key, the
\* first inserted, at the (C + 1)-th insertion; the other C keys are held.
C3_EvictsFirstInserted ==
    LET n == Len(run)
        inserted(i, j) == {run[x] : x \in i..j}
    IN  /\ (n >= 1 /\ n <= cacheSize) => Held(State) = inserted(1, n)
        /\ n = cacheSize + 1 =>
              /\ Held(State) = inserted(2, n)
              /\ Truthy(result)
              /\ op.name = "put" => result.key = run[1]

C5_SetThenGet ==
    op.name = "set" => GetF(State, op.key, FALSE).ret = RetValue(op.value)

\* C6: shift() returns none exactly when no key is held; otherwise it
\* returns the key and value of the least recently used held key, that key
\* is not held afterwards, and one key less is held.
C6_ShiftOldest ==
    op.name = "shift" =>
        IF was.ref = <<>>
        THEN ~Truthy(result) /\ Count(State) = 0
        ELSE /\ result.kind = "entry"
             /\ result.key = Head(was.ref)[1]
             /\ result.value = Head(was.ref)[2]
             /\ keys[result.key] = Undef
             /\ Count(State) = Len(was.ref) - 1

\* C7: assigning limit = n with 2 <= n < count, on a cache whose count
\* entries are linked oldest to newest, evicts exactly the count - n oldest
\* entries, leaves the n others in their order, and leaves count <= limit.
C7_LimitShrink ==
    LET n     == op.raw.n
        count == pre.currentSize
        old   == Oldest(pre)
    IN  (/\ op.name = "limit"
         /\ 2 <= n /\ n < count
         /\ Len(old) = count /\ Count(pre) = count)
        => /\ cacheSize = n
           /\ Oldest(State) = SubSeq(old, count - n + 1, count)
           /\ Count(State) = n
           /\ currentSize <= cacheSize

C9_SetUpserts ==
    op.name = "set" =>
        LET k == op.key
            v == op.value
            evicted == Held(pre) \ Held(State)
        IN  IF pre.keys[k] # Undef
            THEN /\ result = RetValue(Bound(pre, k))
                 /\ Held(State) = Held(pre)
                 /\ currentSize = pre.currentSize
                 /\ Bound(State, k) = v
                 /\ tail = keys[k]
            ELSE /\ keys[k] # Undef
                 /\ Bound(State, k) = v
                 /\ tail = keys[k]
                 /\ IF evicted = {} THEN ~Truthy(result)
                    ELSE \E e \in evicted :
                            /\ evicted = {e}
                            /\ result = RetValue(Bound(pre, e))

\* The entries of the held keys in the order iterate visits them, oldest
\* first and newest first (an entry that shift unlinked from the head can
\* stay linked behind the tail; it is the entry of no held key).
Indexed(st, w) ==
    SelectSeq(w, LAMBDA n : st.heap[n].key \in Names /\ st.keys[st.heap[n].key] = n)
HeldOldest(st) == Pairs(st, Indexed(st, Walk(st, FALSE)))
HeldNewest(st) == Pairs(st, Indexed(st, Walk(st, TRUE)))

\* head and tail delimit a list of exactly the entries of the held keys
WellLinked(st) ==
    /\ Len(Oldest(st)) = Count(st) /\ HeldOldest(st) = Oldest(st)
    /\ Len(Newest(st)) = Count(st) /\ HeldNewest(st) = Newest(st)

C11_AbsentNoEffect ==
    (op.name \in {"get", "remove"} /\ pre.keys[op.key] \notin Nodes)
        => /\ Plain(result) = None
           /\ State = pre

\* C12: after get(k) of a held key k, a second get(k) returns the same
\* value and changes nothing: not the order, not head, tail or any link.
C12_GetTwice ==
    (op.name = "get" /\ pre.keys[op.key] # Undef)
        => LET again == GetF(State, op.key, FALSE)
           IN  /\ again.ret = result
               /\ again.st = State

\* the first get moved its entry from the head of three to the tail
C12_Witness ==
    /\ op.name = "get"
    /\ Count(pre) = 3
    /\ Len(Oldest(pre)) = 3
    /\ Head(Oldest(pre))[1] = op.key
    /\ Oldest(State) = Tail(Oldest(pre)) \o <<Head(Oldest(pre))>>

Reverse(l) == [i \in 1..Len(l) |-> l[Len(l) + 1 - i]]

\* C13: isSet(k), keys(), reading limit and iterate in either direction
\* leave the cache as it was, and iterate visits oldest first exactly the
\* reverse of what it visits newest first.
C13_ObserversPure ==
    /\ op.name \in {"isSet", "keys", "limit?", "iterate"} => State = pre
    /\ op.name = "iterate" =>
          IterateF(State, FALSE).ret.list = Reverse(IterateF(State, TRUE).ret.list)

\* the cache object new CacheLRU(C) makes
Fresh(C) == [cacheSize |-> C, currentSize |-> 0, keys |-> EmptyIndex,
             head |-> Undef, tail |-> Undef,
             heap |-> [n \in Objects |-> NoEntry]]

\* C14: destroy() leaves no key, count 0, no head, no tail and the limit it
\* found; the cache object is then the one a constructor call with that
\* limit makes, so every following call returns what it would return there.
C14_DestroyIsFresh ==
    op.name = "destroy" =>
        /\ Held(State) = {} /\ currentSize = 0
        /\ head = Undef /\ tail = Undef
        /\ cacheSize = pre.cacheSize
        /\ State = Fresh(pre.cacheSize)

\* a cache of three keys whose count had gone wrong has been destroyed
C14_Witness ==
    /\ op.name = "destroy"
    /\ Count(pre) = 3
    /\ pre.currentSize # 3

\* C15: the constructor and the setter of limit, given a capacity that is
\* non-numeric, non-finite, negative, below 2 or an integer, return without
\* an error and leave the limit at that integer where it is at least 2 and
\* at 2 otherwise; the limit is at least 2 in every state.
C15_CapacityClamped ==
    /\ cacheSize >= minCacheSize
    /\ op.name \in {"new", "limit"} =>
          /\ Returned
          /\ cacheSize = IF op.raw.kind = "int" /\ op.raw.n >= minCacheSize
                         THEN op.raw.n ELSE minCacheSize

\* the elements of a sequence
Range(l) == {l[i] : i \in 1..Len(l)}

\* C16: the index, the list and the counter agree: the walk from head along
\* newer ends at tail, visits _currentSize entries, each once, and visits
\* exactly the entries the index holds.
C16_IndexListCountAgree ==
    LET w == Walk(State, FALSE) IN
    /\ tail = IF w = <<>> THEN Undef ELSE w[Len(w)]
    /\ Len(w) = currentSize
    /\ Cardinality(Range(w)) = Len(w)
    /\ Range(w) = {keys[k] : k \in Held(State)}

\* the entries that are linked: reached from head, tail or the index
Linked(st) == Range(Reach(st)) \ {Fn}

\* C17: head has no older and tail no newer entry; a.newer = b exactly when
\* b.older = a; head is undefined exactly when tail is, and exactly when no
\* key is held; head = tail when one key is held.
C17_LinksConsistent ==
    /\ head # Undef => heap[head].older = Undef
    /\ tail # Undef => heap[tail].newer = Undef
    /\ \A a, b \in Linked(State) : heap[a].newer = b <=> heap[b].older = a
    /\ head = Undef <=> tail = Undef
    /\ head = Undef <=> Held(State) = {}
    /\ Count(State) = 1 => head = tail

\* C18: a put or a set of a key not held, into a cache that holds fewer
\* keys than the limit (as after a shift or a shrink of the limit), evicts
\* nothing: it returns no entry and every key held before is held after.
C18_FreedSlotIsUsable ==
    (/\ op.name \in {"put", "set"}
     /\ pre.keys[op.key] = Undef
     /\ Count(pre) < pre.cacheSize)
        => /\ ~Truthy(result)
           /\ Held(State) = Held(pre) \cup {op.key}

\* the key of the entry a reference leads to
KeyAt(st, n) == IF n = Undef THEN Undef ELSE st.heap[n].key

\* C19: get(k) of a held key returns k's value and changes the order only:
\* k's entry is the tail, the other held entries are linked in the order
\* they were linked in, head moves (to the entry after k's) only where k's
\* entry was the head, and the keys held, their values, count and limit are
\* as before; where head and tail delimited the held entries, iterate
\* yields the others in their order and then k.
C19_GetOnlyReorders ==
    (op.name = "get" /\ pre.keys[op.key] # Undef) =>
        LET k    == op.key
            e    == pre.keys[k]
            last == <<k, Bound(pre, k)>>
        IN  /\ result = RetValue(Bound(pre, k))
            /\ tail = keys[k]
            /\ Held(State) = Held(pre)
            /\ \A j \in Held(State) : Bound(State, j) = Bound(pre, j)
            /\ currentSize = pre.currentSize
            /\ cacheSize = pre.cacheSize
            /\ HeldNewest(State) = <<last>> \o Without(HeldNewest(pre), k)
            /\ Without(HeldOldest(State), k) = Without(HeldOldest(pre), k)
            /\ KeyAt(State, head) =
                  IF e = pre.head /\ e # pre.tail
                  THEN KeyAt(pre, pre.heap[e].newer)
                  ELSE KeyAt(pre, pre.head)
            /\ WellLinked(pre) =>
                  Oldest(State) = Without(Oldest(pre), k) \o <<last>>

\* the middle one of three entries has been read
C19_Witness ==
    /\ op.name = "get"
    /\ Count(pre) = 3
    /\ Len(Oldest(pre)) = 3
    /\ Oldest(pre)[2][1] = op.key
    /\ Oldest(State) = <<Oldest(pre)[1], Oldest(pre)[3], Oldest(pre)[2]>>

\* how many of the entries linked behind the tail have key k
NumLinked(st, k) ==
    Cardinality({i \in 1..Len(Newest(st)) : Newest(st)[i][1] = k})

====
